---- MODULE Spec2Model ----
(***************************************************************************)
(* A model of giftless_client.client.LfsClient: construction, the batch    *)
(* negotiation, upload/download dispatch to a transfer adapter, lock       *)
(* listing, authentication headers and the object identity computation.    *)
(*                                                                         *)
(* Representation choices                                                  *)
(*  - Python str values are TLA+ strings and concatenate with \o; the      *)
(*    Python value None is the string "None", which is also what           *)
(*    '{}'.format(None) renders.  No input domain contains "None".         *)
(*  - lfs_server_url is a sequence of string pieces whose trailing "/"     *)
(*    characters are pieces of their own, so that rstrip('/') is computed. *)
(*  - basic_auth is <<user, pw>> with user and pw sequences of character   *)
(*    codes, so that the ascii encoding and base64 are computed.           *)
(*  - a dict is a function from its keys to its values.                    *)
(*  - a SHA-256 state is a natural number that determines the sequence of  *)
(*    bytes fed so far (a collision-free digest); hexdigest reads it out.  *)
(*  - a call of upload/download/batch/list_locks is split at its external  *)
(*    interactions: every read of the stream, the HTTP exchange and the    *)
(*    run of the transfer adapter.  The outcomes of those interactions     *)
(*    are chosen nondeterministically.                                     *)
(***************************************************************************)
EXTENDS Integers, Sequences, FiniteSets, TLC

VARIABLES client, ctor, pc, args, file_obj, digest, object_attrs, request,
          response, adapter, error, result, trace

vars == <<client, ctor, pc, args, file_obj, digest, object_attrs, request,
          response, adapter, error, result, trace>>

(***************************************************************************)
(* Bounds of the model                                                     *)
(***************************************************************************)
MaxLen == 3          \* longest stream content

None == "None"
NoBasicAuth == <<>>  \* basic_auth=None

(***************************************************************************)
(* Constants of the program                                                *)
(***************************************************************************)
\* 4 * 1024 * 1000 in the source; scaled to the stream lengths of the model
\* so that a stream takes one or several reads.
FILE_READ_BUFFER_SIZE == 2

LFS_MIME_TYPE == "application/vnd.git-lfs+json"

TRANSFER_ADAPTERS == {"basic", "multipart-basic"}

TRANSFER_ADAPTER_PRIORITY == <<"multipart-basic", "basic">>

(***************************************************************************)
(* Python helpers                                                          *)
(***************************************************************************)
\* truth value of an Optional[str]: None and '' are false
Truthy(s) == s # None /\ s # ""

\* d[k] = v on a dict
DictSet(d, k, v) == [x \in (DOMAIN d) \cup {k} |-> IF x = k THEN v ELSE d[x]]

EmptyDict == [x \in {} |-> 0]

RECURSIVE Join(_)
\* ''.join(pieces)
Join(pieces) ==
    IF pieces = <<>> THEN "" ELSE Head(pieces) \o Join(Tail(pieces))

RECURSIVE RStripSlash(_)
\* lfs_server_url.rstrip('/')
RStripSlash(pieces) ==
    IF pieces # <<>> /\ pieces[Len(pieces)] = "/"
    THEN RStripSlash(SubSeq(pieces, 1, Len(pieces) - 1))
    ELSE pieces

RECURSIVE JoinSlash(_)
\* '/'.join(segments)
JoinSlash(segments) ==
    IF segments = <<>> THEN ""
    ELSE IF Len(segments) = 1 THEN segments[1]
    ELSE segments[1] \o "/" \o JoinSlash(Tail(segments))

B64Alphabet ==
    <<"A","B","C","D","E","F","G","H","I","J","K","L","M","N","O","P",
      "Q","R","S","T","U","V","W","X","Y","Z","a","b","c","d","e","f",
      "g","h","i","j","k","l","m","n","o","p","q","r","s","t","u","v",
      "w","x","y","z","0","1","2","3","4","5","6","7","8","9","+","/">>

B64Char(sextet) == B64Alphabet[sextet + 1]

RECURSIVE b64encode(_)
\* base64.b64encode(bs), rendered as str
b64encode(bs) ==
    IF Len(bs) = 0 THEN ""
    ELSE IF Len(bs) = 1 THEN
        B64Char(bs[1] \div 4) \o B64Char((bs[1] % 4) * 16) \o "=="
    ELSE IF Len(bs) = 2 THEN
        B64Char(bs[1] \div 4) \o B64Char((bs[1] % 4) * 16 + bs[2] \div 16)
            \o B64Char((bs[2] % 16) * 4) \o "="
    ELSE
        B64Char(bs[1] \div 4) \o B64Char((bs[1] % 4) * 16 + bs[2] \div 16)
            \o B64Char((bs[2] % 16) * 4 + bs[3] \div 64) \o B64Char(bs[3] % 64)
            \o b64encode(SubSeq(bs, 4, Len(bs)))

\* '{}:{}'.format(user, pw) as character codes
UserColonPw(basic_auth) == basic_auth[1] \o <<58>> \o basic_auth[2]

\* .encode('ascii') raises UnicodeEncodeError on a character above 127
EncodeAsciiRaises(chars) == \E i \in 1..Len(chars) : chars[i] > 127

(***************************************************************************)
(* hashlib.sha256                                                          *)
(***************************************************************************)
Sha256New == 1

RECURSIVE Sha256Update(_, _)
\* digest.update(data)
Sha256Update(h, data) ==
    IF data = <<>> THEN h
    ELSE Sha256Update(h * 2 + Head(data), Tail(data))

\* digest.hexdigest()
HexDigest(h) == h

(***************************************************************************)
(* Input domains                                                           *)
(***************************************************************************)
\* the byte values of the model's streams
Bytes == {0, 1}

Contents == UNION {[1..n -> Bytes] : n \in 0..MaxLen}

ServerUrls == {<<"https://lfs.example">>, <<"https://lfs.example", "/", "/">>}

AuthTokens == {None, "", "tok"}

\* ('u', 'p'), ('ab', 'c'), ('\xe9', 'p')
BasicAuths == {NoBasicAuth, <<<<117>>, <<112>>>>, <<<<97, 98>>, <<99>>>>,
               <<<<233>>, <<112>>>>}

AdapterLists == {TRANSFER_ADAPTER_PRIORITY, <<"basic">>}

Names == {None, "o"}

ExtrasSets == {EmptyDict, [k \in {"a"} |-> 7], [k \in {"oid", "size"} |-> 9]}

Oids == {5, 6}

Sizes == {0, 2}

StatusCodes == {200, 201, 500}

TransferNames == {"basic", "multipart-basic", "tus"}

LockArgs == {None, "a", "b"}

(***************************************************************************)
(* LfsClient.__init__                                                      *)
(***************************************************************************)
NoClient == [url |-> "", auth_token |-> None, basic_auth |-> NoBasicAuth,
             transfer_adapters |-> <<>>, exists |-> FALSE]

NoRequest == [method |-> None]

NoResponse == [status_code |-> 0]

\* transfers=None in a call of batch
NoTransfers == <<None>>

NoError == [type |-> None, status_code |-> 0]

NoFile == [content |-> <<>>, pos |-> 0]

\* a rejection that tests the truth values instead of "is not None"
InitRejectsTruthy(auth_token, basic_auth) ==
    Truthy(auth_token) /\ basic_auth # NoBasicAuth

\* the test that makes __init__ raise
InitRejects(auth_token, basic_auth) ==
    auth_token # None /\ basic_auth # NoBasicAuth

Init ==
    /\ client = NoClient
    /\ ctor = [auth_token |-> None, basic_auth |-> NoBasicAuth, raised |-> None]
    /\ pc = "new"
    /\ args = [op |-> None]
    /\ file_obj = NoFile
    /\ digest = Sha256New
    /\ object_attrs = EmptyDict
    /\ request = NoRequest
    /\ response = NoResponse
    /\ adapter = None
    /\ error = NoError
    /\ result = EmptyDict
    /\ trace = <<>>

Construct(lfs_server_url, auth_token, basic_auth, transfer_adapters) ==
    /\ pc = "new"
    /\ ctor' = [auth_token |-> auth_token, basic_auth |-> basic_auth,
                raised |-> IF InitRejects(auth_token, basic_auth)
                           THEN "ValueError" ELSE None]
    /\ IF InitRejects(auth_token, basic_auth)
       THEN /\ client' = NoClient
            /\ pc' = "init_failed"
       ELSE /\ client' = [url |-> Join(RStripSlash(lfs_server_url)),
                          auth_token |-> auth_token,
                          basic_auth |-> basic_auth,
                          transfer_adapters |-> transfer_adapters,
                          exists |-> TRUE]
            /\ pc' = "idle"
    /\ UNCHANGED <<args, file_obj, digest, object_attrs, request, response,
                   adapter, error, result, trace>>

(***************************************************************************)
(* LfsClient._url_for, _add_auth, _add_extra_object_attributes             *)
(***************************************************************************)
\* no caller passes params, so the urlencode branch is never taken
UrlFor(c, segments) == c.url \o "/" \o JoinSlash(segments)

\* _add_auth raises when the credentials do not encode as ascii
AddAuthRaises(c) ==
    /\ c.basic_auth # NoBasicAuth
    /\ EncodeAsciiRaises(UserColonPw(c.basic_auth))

\* an _add_auth that forgets the basic credentials
AddAuthBearerOnly(c, headers) ==
    IF Truthy(c.auth_token)
    THEN DictSet(headers, "Authorization", "Bearer " \o c.auth_token)
    ELSE headers

AddAuth(c, headers) ==
    LET h1 == IF Truthy(c.auth_token)
              THEN DictSet(headers, "Authorization", "Bearer " \o c.auth_token)
              ELSE headers
    IN  IF c.basic_auth # NoBasicAuth
        THEN DictSet(h1, "Authorization",
                     "Basic " \o b64encode(UserColonPw(c.basic_auth)))
        ELSE h1

\* an extra stored under its own key
ExtraKeyNoPrefix(k) == k

\* 'x-{}'.format(k)
ExtraKey(k) == "x-" \o k

AddExtraObjectAttributes(attributes, extras) ==
    LET added == {ExtraKey(k) : k \in DOMAIN extras}
    IN  [x \in (DOMAIN attributes) \cup added |->
            IF x \in added
            THEN extras[CHOOSE k \in DOMAIN extras : ExtraKey(k) = x]
            ELSE attributes[x]]

(***************************************************************************)
(* LfsClient.batch up to the POST                                          *)
(***************************************************************************)
Headers == [k \in {"Content-type", "Accept"} |-> LFS_MIME_TYPE]

BatchUrl(c, prefix) ==
    IF prefix # None
    THEN UrlFor(c, <<prefix, "objects", "batch">>)
    ELSE UrlFor(c, <<"objects", "batch">>)

BatchPayload(c, operation, objects, ref, transfers) ==
    LET t == IF transfers = NoTransfers THEN c.transfer_adapters ELSE transfers
        payload == [transfers |-> t, operation |-> operation,
                    objects |-> objects]
    IN  IF Truthy(ref) THEN DictSet(payload, "ref", ref) ELSE payload

\* batch() from its entry to requests.post; tr is the trace so far
SendBatch(tr, prefix, operation, objects, ref, transfers) ==
    IF AddAuthRaises(client)
    THEN /\ pc' = "failed"
         /\ error' = [type |-> "UnicodeEncodeError", status_code |-> 0]
         /\ trace' = tr
         /\ UNCHANGED request
    ELSE /\ pc' = "post"
         /\ request' = [method |-> "POST",
                        url |-> BatchUrl(client, prefix),
                        headers |-> AddAuth(client, Headers),
                        json |-> BatchPayload(client, operation, objects,
                                              ref, transfers),
                        params |-> EmptyDict]
         /\ trace' = Append(tr, "POST")
         /\ UNCHANGED error

\* prefix as upload and download compute it
Prefix(organization, repo) ==
    IF organization # None \/ repo # None
    THEN organization \o "/" \o repo
    ELSE None

(***************************************************************************)
(* LfsClient.upload and LfsClient._get_object_attrs                        *)
(***************************************************************************)
\* file_obj.seek(0) of the finally clause
SeekStart(f) == [f EXCEPT !.pos = 0]

\* no finally clause: an exception leaves the stream where the read stopped
AfterReadErrorNoFinally(f) == f

\* the stream as an exception leaves it: the finally clause has run
AfterReadError(f) == SeekStart(f)

\* size = file_obj.tell(); oid = digest.hexdigest()
ObjectAttributes(f, h) == [oid |-> HexDigest(h), size |-> f.pos]

Upload(f, organization, repo, extras) ==
    /\ pc = "idle"
    /\ args' = [op |-> "upload", file_obj |-> f, organization |-> organization,
                repo |-> repo, extras |-> extras]
    /\ file_obj' = f
    /\ digest' = Sha256New
    /\ trace' = <<"identity_begin">>
    /\ pc' = "read"
    /\ UNCHANGED <<client, ctor, object_attrs, request, response, adapter,
                   error, result>>

\* file_obj.read(FILE_READ_BUFFER_SIZE) returns n > 0 bytes
ReadData(n) ==
    /\ pc = "read"
    /\ n <= Len(file_obj.content) - file_obj.pos
    /\ digest' = Sha256Update(digest, SubSeq(file_obj.content,
                                             file_obj.pos + 1,
                                             file_obj.pos + n))
    /\ file_obj' = [file_obj EXCEPT !.pos = @ + n]
    /\ UNCHANGED <<client, ctor, pc, args, object_attrs, request, response,
                   adapter, error, result, trace>>

\* file_obj.read returns b'': the identity is complete and upload goes on
\* to the batch request
ReadEOF ==
    /\ pc = "read"
    /\ file_obj.pos = Len(file_obj.content)
    /\ LET attrs == AddExtraObjectAttributes(ObjectAttributes(file_obj, digest),
                                             args.extras)
       IN  /\ object_attrs' = attrs
           /\ file_obj' = SeekStart(file_obj)
           /\ SendBatch(Append(trace, "identity_end"),
                        Prefix(args.organization, args.repo), "upload",
                        <<attrs>>, None, NoTransfers)
    /\ UNCHANGED <<client, ctor, args, digest, response, adapter, result>>

\* file_obj.read raises
ReadRaises ==
    /\ pc = "read"
    /\ file_obj' = AfterReadError(file_obj)
    /\ error' = [type |-> "IOError", status_code |-> 0]
    /\ pc' = "failed"
    /\ UNCHANGED <<client, ctor, args, digest, object_attrs, request,
                   response, adapter, result, trace>>

(***************************************************************************)
(* LfsClient.download, LfsClient.batch as a public operation               *)
(***************************************************************************)
Download(object_sha256, object_size, organization, repo, extras) ==
    /\ pc = "idle"
    /\ args' = [op |-> "download", object_sha256 |-> object_sha256,
                object_size |-> object_size, organization |-> organization,
                repo |-> repo, extras |-> extras]
    /\ LET attrs == AddExtraObjectAttributes(
                        [oid |-> object_sha256, size |-> object_size], extras)
       IN  /\ object_attrs' = attrs
           /\ SendBatch(<<>>, Prefix(organization, repo), "download",
                        <<attrs>>, None, NoTransfers)
    /\ UNCHANGED <<client, ctor, file_obj, digest, response, adapter, result>>

Batch(prefix, operation, objects, ref, transfers) ==
    /\ pc = "idle"
    /\ args' = [op |-> "batch", prefix |-> prefix, operation |-> operation,
                objects |-> objects, ref |-> ref, transfers |-> transfers]
    /\ SendBatch(<<>>, prefix, operation, objects, ref, transfers)
    /\ UNCHANGED <<client, ctor, file_obj, digest, object_attrs, response,
                   adapter, result>>

(***************************************************************************)
(* The batch response: the rest of batch, then adapter resolution          *)
(***************************************************************************)
\* a status test that lets every 2xx through
StatusOkAny2xx(status_code) == status_code \in 200..299

\* response.status_code != 200 raises LfsError
StatusOk(status_code) == status_code = 200

\* a lookup that falls back to the basic adapter
ResolveAdapterFallback(name) ==
    IF name \in TRANSFER_ADAPTERS THEN name ELSE "basic"

\* a lookup that always builds the basic adapter for a known name
ResolveAdapterAlwaysBasic(name) ==
    IF name \in TRANSFER_ADAPTERS THEN "basic" ELSE "KeyError"

\* TRANSFER_ADAPTERS[name](), or "KeyError" for a name that is no key
ResolveAdapter(name) ==
    IF name \in TRANSFER_ADAPTERS THEN name ELSE "KeyError"

\* the JSON bodies a server may answer a batch with; "transfer" may be
\* left out
BatchBodies ==
    {[objects |-> o] : o \in {<<>>, <<"action">>}}
    \cup {[transfer |-> t, objects |-> o] :
              t \in TransferNames, o \in {<<>>, <<"action">>}}

\* the bodies that come with an error status
ErrorBodies ==
    {[message |-> "error"]}
    \cup {b \in BatchBodies : /\ b.objects # <<>>
                              /\ "transfer" \in DOMAIN b
                              /\ b.transfer = "basic"}

\* status and body of a response
Responses ==
    {<<s, b>> : s \in {200}, b \in BatchBodies}
    \cup {<<s, b>> : s \in StatusCodes \ {200}, b \in ErrorBodies}

Fail(type, status_code) ==
    /\ pc' = "failed"
    /\ error' = [type |-> type, status_code |-> status_code]

\* requests.post returns
PostReturns(status_code, body) ==
    /\ pc = "post"
    /\ response' = [status_code |-> status_code, json |-> body]
    /\ IF ~StatusOk(status_code)
       THEN /\ Fail("LfsError", status_code)
            /\ UNCHANGED <<adapter, result, trace>>
       ELSE IF args.op = "batch"
       THEN /\ pc' = "done"
            /\ result' = body
            /\ UNCHANGED <<adapter, error, trace>>
       ELSE IF "transfer" \notin DOMAIN body
       THEN \* the handler of KeyError reads response['transfer'] again
            /\ Fail("KeyError", 0)
            /\ UNCHANGED <<adapter, result, trace>>
       ELSE IF ResolveAdapter(body.transfer) = "KeyError"
       THEN /\ Fail("ValueError", 0)
            /\ UNCHANGED <<adapter, result, trace>>
       ELSE IF body.objects = <<>>
       THEN \* response['objects'][0]
            /\ Fail("IndexError", 0)
            /\ adapter' = ResolveAdapter(body.transfer)
            /\ UNCHANGED <<result, trace>>
       ELSE /\ pc' = "transfer"
            /\ adapter' = ResolveAdapter(body.transfer)
            /\ trace' = Append(trace, "adapter")
            /\ UNCHANGED <<error, result>>
    /\ UNCHANGED <<client, ctor, args, file_obj, digest, object_attrs,
                   request>>

\* a failed POST that is sent again, up to three times
PostRaisesRetry ==
    /\ pc = "post"
    /\ IF Len(trace) < 5
       THEN /\ trace' = Append(trace, "POST")
            /\ UNCHANGED <<pc, error>>
       ELSE /\ Fail("ConnectionError", 0)
            /\ UNCHANGED trace
    /\ UNCHANGED <<client, ctor, args, file_obj, digest, object_attrs,
                   request, response, adapter, result>>

\* requests.post raises (no connection, timeout, ...)
PostRaises ==
    /\ pc = "post"
    /\ Fail("ConnectionError", 0)
    /\ UNCHANGED <<client, ctor, args, file_obj, digest, object_attrs,
                   request, response, adapter, result, trace>>

\* adapter.upload / adapter.download returns
AdapterReturns ==
    /\ pc = "transfer"
    /\ pc' = "done"
    /\ result' = IF args.op = "upload" THEN object_attrs ELSE EmptyDict
    /\ UNCHANGED <<client, ctor, args, file_obj, digest, object_attrs,
                   request, response, adapter, error, trace>>

\* adapter.upload / adapter.download raises
AdapterRaises ==
    /\ pc = "transfer"
    /\ Fail("TransferError", 0)
    /\ UNCHANGED <<client, ctor, args, file_obj, digest, object_attrs,
                   request, response, adapter, result, trace>>

(***************************************************************************)
(* LfsClient.list_locks                                                    *)
(***************************************************************************)
\* {path: path, id: id, cursor: cursor, limit: limit, refspec: refspec}:
\* the keys of the dict are the values of the arguments.  cursor and limit
\* are carried as their decimal rendering.
LockParams(path, id, cursor, limit, refspec) ==
    [k \in {path, id, cursor, limit, refspec} |-> k]

\* the query requests sends for params: entries whose value is None are
\* left out
Query(params) == {<<k, params[k]>> : k \in {x \in DOMAIN params : params[x] # None}}

ListLocks(path, id, cursor, limit, refspec) ==
    /\ pc = "idle"
    /\ args' = [op |-> "list_locks", path |-> path, id |-> id,
                cursor |-> cursor, limit |-> limit, refspec |-> refspec]
    /\ IF AddAuthRaises(client)
       THEN /\ Fail("UnicodeEncodeError", 0)
            /\ UNCHANGED <<request, trace>>
       ELSE /\ pc' = "get"
            /\ request' = [method |-> "GET",
                           url |-> UrlFor(client, <<"/list">>),
                           headers |-> AddAuth(client, Headers),
                           json |-> EmptyDict,
                           params |-> LockParams(path, id, cursor, limit,
                                                 refspec)]
            /\ trace' = <<"GET">>
            /\ UNCHANGED error
    /\ UNCHANGED <<client, ctor, file_obj, digest, object_attrs, response,
                   adapter, result>>

\* requests.get returns
GetReturns(status_code) ==
    /\ pc = "get"
    /\ response' = [status_code |-> status_code,
                    json |-> [locks |-> <<>>]]
    /\ IF ~StatusOk(status_code)
       THEN /\ Fail("LfsError", status_code)
            /\ UNCHANGED result
       ELSE /\ pc' = "done"
            /\ result' = [locks |-> <<>>]
            /\ UNCHANGED error
    /\ UNCHANGED <<client, ctor, args, file_obj, digest, object_attrs,
                   request, adapter, trace>>

\* requests.get raises
GetRaises ==
    /\ pc = "get"
    /\ Fail("ConnectionError", 0)
    /\ UNCHANGED <<client, ctor, args, file_obj, digest, object_attrs,
                   request, response, adapter, result, trace>>

(***************************************************************************)
(* The caller                                                              *)
(***************************************************************************)
\* the call has returned or raised; the caller is free to make another
Return ==
    /\ pc \in {"done", "failed"}
    /\ pc' = "idle"
    /\ args' = [op |-> None]
    /\ file_obj' = NoFile
    /\ digest' = Sha256New
    /\ object_attrs' = EmptyDict
    /\ request' = NoRequest
    /\ response' = NoResponse
    /\ adapter' = None
    /\ error' = NoError
    /\ result' = EmptyDict
    /\ trace' = <<>>
    /\ UNCHANGED <<client, ctor>>

Files == {[content |-> c, pos |-> p] : c \in Contents, p \in 0..MaxLen}

\* streams as a caller can hold them: positioned inside the content
Streams == {f \in Files : f.pos <= Len(f.content)}

BatchObjects == {<<>>, <<[oid |-> 5, size |-> 2]>>}

Next ==
    \/ /\ pc = "new"
       /\ \E u \in ServerUrls, t \in AuthTokens, b \in BasicAuths,
             a \in AdapterLists : Construct(u, t, b, a)
    \/ /\ pc = "idle"
       /\ \E f \in Streams, o \in Names, r \in Names, e \in ExtrasSets :
             Upload(f, o, r, e)
    \/ \E n \in 1..FILE_READ_BUFFER_SIZE : ReadData(n)
    \/ ReadEOF
    \/ ReadRaises
    \/ /\ pc = "idle"
       /\ \E h \in Oids, z \in Sizes, o \in Names, r \in Names,
             e \in ExtrasSets : Download(h, z, o, r, e)
    \/ /\ pc = "idle"
       /\ \E p \in {None, "o/r"}, op \in {"upload", "download"},
             objs \in BatchObjects, ref \in {None, "", "refs/heads/main"},
             t \in {NoTransfers, <<"basic">>} : Batch(p, op, objs, ref, t)
    \/ /\ pc = "post"
       /\ \E r \in Responses : PostReturns(r[1], r[2])
    \/ PostRaises
    \/ AdapterReturns
    \/ AdapterRaises
    \/ /\ pc = "idle"
       /\ \E p \in LockArgs, i \in LockArgs, c \in {None, "1"},
             l \in {None, "2"}, r \in {None, "main"} :
             ListLocks(p, i, c, l, r)
    \/ \E s \in StatusCodes : GetReturns(s)
    \/ GetRaises
    \/ Return

Spec == Init /\ [][Next]_vars


(***************************************************************************)
(* Properties                                                              *)
(***************************************************************************)
HasEvent(e) == \E i \in 1..Len(trace) : trace[i] = e

IsPrefix(s, t) == Len(s) <= Len(t) /\ s = SubSeq(t, 1, Len(s))

\* the reference digest of a whole content, fed in one piece
Sha256Of(content) == HexDigest(Sha256Update(Sha256New, content))

\* C1: when _get_object_attrs has ended, normally or by a failed read, the
\* stream is at position 0 with its content untouched; a failed read ends
\* the call with the read error, after the reset.
C1_StreamResetOnAllExits ==
    (args.op = "upload" /\ pc # "read" /\ ~HasEvent("adapter")) =>
        /\ file_obj.pos = 0
        /\ file_obj.content = args.file_obj.content
        /\ ~HasEvent("identity_end") =>
               (pc = "failed" /\ error.type = "IOError")

\* a read failed partway through a stream that did not start at 0
C1_Witness ==
    /\ args.op = "upload"
    /\ pc = "failed"
    /\ error.type = "IOError"
    /\ digest # Sha256New
    /\ args.file_obj.pos > 0
    /\ file_obj.pos = 0

\* C2: for every stream and every read position it has when the call is
\* made, the identity is the byte length of the stream and the digest of
\* its full content.
C2_IdentityOfFullContent ==
    (args.op = "upload" /\ HasEvent("identity_end")) =>
        /\ object_attrs.size = Len(args.file_obj.content)
        /\ object_attrs.oid = Sha256Of(args.file_obj.content)

\* C3: a batch response with a status other than 200 makes batch, upload
\* and download fail with an LfsError carrying that status, and no adapter
\* is resolved or invoked.
C3_Non200IsLfsError ==
    (args.op \in {"batch", "upload", "download"}
        /\ response.status_code # 0 /\ response.status_code # 200) =>
        /\ pc = "failed"
        /\ error.type = "LfsError"
        /\ error.status_code = response.status_code
        /\ adapter = None
        /\ ~HasEvent("adapter")

\* an upload answered with 201 and a well-formed batch body
C3_Witness ==
    /\ args.op = "upload"
    /\ response.status_code = 201
    /\ "transfer" \in DOMAIN response.json
    /\ error.type = "LfsError"

\* C4: a 200 response naming an adapter that is not registered makes upload
\* and download fail with a ValueError; no adapter is built or invoked.
C4_UnknownAdapterIsValueError ==
    (args.op \in {"upload", "download"}
        /\ response.status_code = 200
        /\ "transfer" \in DOMAIN response.json
        /\ response.json.transfer \notin {"basic", "multipart-basic"}) =>
        /\ pc = "failed"
        /\ error.type = "ValueError"
        /\ adapter = None
        /\ ~HasEvent("adapter")

\* a download answered with the unregistered adapter name and an action
C4_Witness ==
    /\ args.op = "download"
    /\ response.status_code = 200
    /\ "transfer" \in DOMAIN response.json
    /\ response.json.transfer = "tus"
    /\ response.json.objects # <<>>
    /\ error.type = "ValueError"

\* C5: a construction with both a token and basic credentials raises a
\* ValueError, yields no client and sends no request; no client holds both.
C5_BothCredentialsRejected ==
    /\ (ctor.auth_token # None /\ ctor.basic_auth # NoBasicAuth) =>
           /\ ctor.raised = "ValueError"
           /\ ~client.exists
           /\ pc = "init_failed"
           /\ request.method = None
           /\ trace = <<>>
    /\ client.exists =>
           ~(client.auth_token # None /\ client.basic_auth # NoBasicAuth)

\* a construction with the empty token and basic credentials
C5_Witness ==
    /\ pc = "init_failed"
    /\ ctor.auth_token = ""
    /\ ctor.basic_auth # NoBasicAuth
    /\ ctor.raised = "ValueError"

\* C6: the single object entry of the batch request of upload and download
\* holds every extra under 'x-' + key with its value, oid and size with the
\* computed (upload) or supplied (download) values, and nothing else.
C6_ExtrasArePrefixed ==
    (args.op \in {"upload", "download"} /\ request.method = "POST") =>
        /\ Len(request.json.objects) = 1
        /\ LET obj == request.json.objects[1]
           IN  /\ DOMAIN obj = {"oid", "size"}
                      \cup {"x-" \o k : k \in DOMAIN args.extras}
               /\ \A k \in DOMAIN args.extras :
                      obj["x-" \o k] = args.extras[k]
               /\ args.op = "upload" =>
                      /\ obj.oid = HexDigest(digest)
                      /\ obj.size = Len(args.file_obj.content)
               /\ args.op = "download" =>
                      /\ obj.oid = args.object_sha256
                      /\ obj.size = args.object_size

\* an upload whose extras are named oid and size
C6_Witness ==
    /\ args.op = "upload"
    /\ request.method = "POST"
    /\ "oid" \in DOMAIN args.extras
    /\ "x-oid" \in DOMAIN request.json.objects[1]

\* base64 of 'u:p' and of 'ab:c', as the standard gives them
BasicHeaderOf(basic_auth) ==
    IF basic_auth = <<<<117>>, <<112>>>> THEN "Basic dTpw"
    ELSE IF basic_auth = <<<<97, 98>>, <<99>>>> THEN "Basic YWI6Yw=="
    ELSE "Basic ?"

\* C7 as stated: every request of batch and list_locks carries
\* 'Bearer {token}' when a token is configured, else 'Basic {base64}' when
\* basic credentials are configured, else no Authorization header.
C7_AuthHeaderAsStated ==
    request.method # None =>
        IF client.auth_token # None
        THEN /\ "Authorization" \in DOMAIN request.headers
             /\ request.headers["Authorization"] = "Bearer " \o client.auth_token
        ELSE IF client.basic_auth # NoBasicAuth
        THEN /\ "Authorization" \in DOMAIN request.headers
             /\ request.headers["Authorization"] = BasicHeaderOf(client.basic_auth)
        ELSE "Authorization" \notin DOMAIN request.headers

\* C7 amended: 'Bearer {token}' when a non-empty token is configured, else
\* 'Basic {base64}' when basic credentials are configured, else (no
\* credentials, or the empty token) no Authorization header; the other
\* headers are the two LFS media type headers.
C7_AuthHeaderNonEmptyToken ==
    request.method # None =>
        /\ DOMAIN request.headers \subseteq
               {"Content-type", "Accept", "Authorization"}
        /\ IF client.auth_token \notin {None, ""}
           THEN /\ "Authorization" \in DOMAIN request.headers
                /\ request.headers["Authorization"] =
                       "Bearer " \o client.auth_token
           ELSE IF client.basic_auth # NoBasicAuth
           THEN /\ "Authorization" \in DOMAIN request.headers
                /\ request.headers["Authorization"] =
                       BasicHeaderOf(client.basic_auth)
           ELSE "Authorization" \notin DOMAIN request.headers

\* a lock listing sent by a client whose token is the empty string
C7_Witness ==
    /\ request.method = "GET"
    /\ client.auth_token = ""
    /\ "Authorization" \notin DOMAIN request.headers

\* the query the arguments of list_locks name
NamedQuery ==
    {q \in {<<"path", args.path>>, <<"id", args.id>>,
            <<"cursor", args.cursor>>, <<"limit", args.limit>>,
            <<"refspec", args.refspec>>} : q[2] # None}

\* C8: list_locks sends one GET to {serverURL}/list whose query holds each
\* supplied argument under its parameter name and nothing for an absent one.
C8_LockQueryByName ==
    args.op = "list_locks" /\ request.method # None =>
        /\ request.method = "GET"
        /\ trace = <<"GET">>
        /\ request.url = client.url \o "/list"
        /\ Query(request.params) = NamedQuery

\* the transfers list of the batch request
Offered == {request.json.transfers[i] : i \in 1..Len(request.json.transfers)}

\* C9 as stated: the adapter dispatched to is one of the names sent in the
\* transfers list of the batch request.
C9_AdapterWasOffered ==
    (args.op \in {"upload", "download"} /\ HasEvent("adapter")) =>
        adapter \in Offered

\* C9 amended: the adapter dispatched to is the registered adapter that the
\* response names, whether or not the request offered it.
C9_AdapterIsTheOneNamed ==
    (args.op \in {"upload", "download"} /\ HasEvent("adapter")) =>
        /\ adapter = response.json.transfer
        /\ adapter \in {"basic", "multipart-basic"}

\* a client offering only basic that dispatches to multipart-basic
C9_Witness ==
    /\ args.op = "upload"
    /\ pc = "transfer"
    /\ request.json.transfers = <<"basic">>
    /\ adapter = "multipart-basic"

\* the events of a call, in their order
EventOrder ==
    IF args.op = "upload"
    THEN <<"identity_begin", "identity_end", "POST", "adapter">>
    ELSE <<"POST", "adapter">>

C10_Ordered ==
    args.op \in {"upload", "download"} =>
        /\ IsPrefix(trace, EventOrder)
        /\ HasEvent("adapter") => response.status_code = 200
        /\ pc \in {"post", "transfer", "done"} => HasEvent("POST")
        /\ pc = "done" => trace = EventOrder
        /\ pc = "failed" => error.type # None

\* C10: the events of an upload or download are a prefix of identity, one
\* batch POST, one adapter run; the adapter runs only after a 200; a call
\* that failed ends with its error and does nothing more.
C10_FixedOrderNoRetry ==
    [][/\ C10_Ordered'
       /\ (pc = "failed" /\ args.op \in {"upload", "download"}) =>
              (pc' = "idle" /\ trace' = <<>> /\ request'.method = None)]_vars

\* an upload that ran to its end
C10_Witness ==
    /\ args.op = "upload"
    /\ pc = "done"
    /\ trace = <<"identity_begin", "identity_end", "POST", "adapter">>
    /\ result = object_attrs

====
